---- MODULE Spec2Model ----
(***************************************************************************)
(* Connection resilience layer of the nautilus network crate.              *)
(*                                                                         *)
(* The Python-facing operations of SocketClient (reconnect, close, send)   *)
(* are translated from nautilus_core/network/src/python/socket.rs.  The    *)
(* controller task (reconnect loop), the heartbeat monitor, the backoff    *)
(* strategy and the rate limiter live in crate modules whose code is not   *)
(* part of the sources at hand (crate::socket, crate::backoff,             *)
(* crate::ratelimiter); they are modelled from the written specification.  *)
(*                                                                         *)
(* The module also covers two parts of the trading domain model:           *)
(* TrailingStopLimitOrder::apply / update (model/src/orders/               *)
(* trailing_stop_limit.rs) and AccountAny::from_events (model/src/         *)
(* accounts/any.rs).                                                       *)
(***************************************************************************)
EXTENDS Integers, Sequences, FiniteSets, TLC

VARIABLES
    mode,              \* SocketClient.connection_mode (shared AtomicU8)
    rcPc,              \* per reconnect() call: position in py_reconnect
    clPc,              \* per close() call: position in py_close
    cfg,               \* SocketConfig: the reconnect parameters in use
    ctrlPc,            \* controller task (reconnect loop): "run" | "done"
    connAlive,         \* the transport behind the Writer accepts bytes
    failures,          \* BackoffState: consecutive failed attempts
    elapsed,           \* time spent in the current reconnect cycle (ms)
    ioFailures,        \* number of transport failures injected so far
    postReconnection,  \* invocations of the post-reconnection callback
    postDisconnection, \* invocations of the post-disconnection callback
    sendPc,            \* per send() call: position in py_send
    sendArg,           \* the bytes passed to send
    sendData,          \* data after data.extend(&slf.suffix)
    sendIdx,           \* bytes of data accepted by the transport so far
    sendPrior,         \* sends that had returned when this one was invoked
    sendMode,          \* connection mode when this send was invoked
                       \* (history, recorded under SpecSend only)
    writerHolder,      \* task holding the Writer mutex, or NoTask
    wire,              \* bytes observed by the transport: <<task, frame
                       \* number, byte, connection number>>
    hbPc, hbIdx, beats,\* heartbeat monitor
    rlLevel,           \* rate limiter bucket level, in 1/RlPeriod units
    rlHist,            \* admissions in each of the last RlPeriod ticks
    rlPc,              \* per limiter caller: "idle" | "waiting"
    order,             \* a TrailingStopLimitOrder: its own fields and those
                       \* of its OrderCore
    orderCall,         \* the last call made on the order: operation, event
                       \* and outcome
    acctPc,            \* position in AccountAny::from_events
    acctEvents,        \* the argument of from_events
    acctIdx,           \* events of the argument consumed so far
    account            \* the account under construction, or NoAccount

connVars == <<mode, rcPc, clPc>>
ctrlVars == <<cfg, ctrlPc, connAlive, failures, elapsed, ioFailures,
              postReconnection, postDisconnection>>
sendVars == <<sendPc, sendArg, sendData, sendIdx, sendPrior, sendMode>>
hbVars   == <<hbPc, hbIdx, beats>>
rlVars   == <<rlLevel, rlHist, rlPc>>
orderVars == <<order, orderCall>>
acctVars  == <<acctPc, acctEvents, acctIdx, account>>
domVars   == <<orderVars, acctVars>>
vars == <<connVars, ctrlVars, sendVars, writerHolder, wire, hbVars, rlVars,
          domVars>>

----------------------------------------------------------------------------
(* Bounds of the model *)

MaxReconnectCalls == 2
MaxCloseCalls == 2
MaxSends == 2
MaxIoFailures == 1
MaxBeats == 1
MaxLimiterCallers == 3
\* limiter configuration: burst capacity, and ticks per refilled unit (1/rate)
RlCapacity == 2
RlPeriod == 3
\* small configurations of the backoff: largest delay, largest jitter bound,
\* and the reconnect timeout, in ticks
BoMaxDelay == 3
BoMaxJitter == 1
BoTimeout == 6
\* orders: largest quantity, largest price, number of calls on the order
MaxQty == 3
MaxPrice == 2
MaxOrderCalls == 4
\* accounts: longest argument of from_events, largest balance
MaxAccountEvents == 3
MaxBalance == 2

ReconnectCalls == 1..MaxReconnectCalls
CloseCalls == 1..MaxCloseCalls
Sends == 1..MaxSends
LimiterCallers == 1..MaxLimiterCallers

----------------------------------------------------------------------------
(* Connection modes and configuration *)

CONNECTION_ACTIVE == "Active"
CONNECTION_RECONNECT == "Reconnecting"
CONNECTION_DISCONNECT == "Disconnecting"
CONNECTION_CLOSED == "Closed"

Modes == {CONNECTION_ACTIVE, CONNECTION_RECONNECT,
          CONNECTION_DISCONNECT, CONNECTION_CLOSED}

\* SocketConfig::py_new defaults
reconnect_timeout_ms == 10000
reconnect_delay_initial_ms == 2000
reconnect_delay_max_ms == 30000
reconnect_jitter_ms == 100
\* reconnect_backoff_factor = 1.5, kept as the ratio 3/2
BackoffFactorNum == 3
BackoffFactorDen == 2

\* SocketConfig.suffix and the heartbeat payload, as byte strings
suffix == <<10>>
PayloadSet == {<<65>>, <<66>>}
HeartbeatPayload == <<80>>

NoTask == -1
HbTask == 0

Min(a, b) == IF a <= b THEN a ELSE b

RECURSIVE Pow(_, _)
Pow(b, n) == IF n = 0 THEN 1 ELSE b * Pow(b, n - 1)

----------------------------------------------------------------------------
(* Backoff strategy (crate::backoff) *)

\* the configuration SocketConfig::py_new builds when the caller passes none
\* of the reconnect parameters
DefaultConfig ==
    [timeout |-> reconnect_timeout_ms,
     delay_initial |-> reconnect_delay_initial_ms,
     delay_max |-> reconnect_delay_max_ms,
     factor_num |-> BackoffFactorNum,
     factor_den |-> BackoffFactorDen,
     jitter |-> reconnect_jitter_ms]

\* variant: the delay is not capped at max_delay
BackoffBase_Uncapped(n) ==
    (cfg.delay_initial * Pow(cfg.factor_num, n)) \div Pow(cfg.factor_den, n)

\* min(max_delay, initial_delay * factor^n), before jitter
BackoffBase(n) ==
    Min(cfg.delay_max,
        (cfg.delay_initial * Pow(cfg.factor_num, n))
            \div Pow(cfg.factor_den, n))

\* the jitter added to a delay lies in [0, jitter_bound]; its two extremes
JitterSet == {0, cfg.jitter}

\* small configurations: delays and jitter in units of one tick, the
\* multipliers 1, 3/2 and 2, the initial delay at most the maximum
BackoffFactors == {<<1, 1>>, <<3, 2>>, <<2, 1>>}

BackoffConfigs ==
    {c \in {[timeout |-> BoTimeout,
             delay_initial |-> i,
             delay_max |-> m,
             factor_num |-> f[1],
             factor_den |-> f[2],
             jitter |-> j] :
                i \in 1..BoMaxDelay, m \in 1..BoMaxDelay,
                f \in BackoffFactors, j \in 0..BoMaxJitter} :
        c.delay_initial <= c.delay_max}

----------------------------------------------------------------------------
(* Values of the trading domain model: options, prices, quantities, order *)
(* events, a new order                                                    *)

\* Option::None of a price, a quantity or a balance (all values are positive)
None == 0

NoAccount == [variant |-> "None", events |-> <<>>, balance |-> None]

\* enums::AccountType, and AccountState events with a type and a balance
AccountTypes == {"Margin", "Cash", "Betting"}

AccountStates ==
    [account_type : AccountTypes, balance : 1..MaxBalance]

RECURSIVE ListsUpTo(_)
ListsUpTo(n) ==
    IF n = 0 THEN {<<>>}
    ELSE ListsUpTo(n - 1)
            \cup {Append(l, e) : l \in {k \in ListsUpTo(n - 1) : Len(k) = n - 1},
                                 e \in AccountStates}

Prices == 1..MaxPrice
Quantities == 1..MaxQty

\* Quantity holds an unsigned raw value: the values a quantity can take
QtyModulus == MaxQty + 1

OrderEvent(type, price, trigger_price, quantity) ==
    [type |-> type, price |-> price, trigger_price |-> trigger_price,
     quantity |-> quantity]

\* OrderUpdated carries an optional price, an optional trigger price and a
\* quantity; OrderFilled carries the last filled quantity
UpdatedEvents ==
    {OrderEvent("Updated", p, tp, q) :
        p \in Prices \cup {None}, tp \in Prices \cup {None},
        q \in Quantities}

FilledEvents == {OrderEvent("Filled", None, None, q) : q \in Quantities}

OrderEvents ==
    {OrderEvent("Accepted", None, None, None),
     OrderEvent("Canceled", None, None, None)}
        \cup UpdatedEvents \cup FilledEvents

\* TrailingStopLimitOrder::new
NewOrder(quantity, price, trigger_price) ==
    [price |-> price,
     trigger_price |-> trigger_price,
     quantity |-> quantity,
     filled_qty |-> 0,
     leaves_qty |-> quantity,
     status |-> "Initialized",
     events |-> <<>>,
     slippage |-> None]

NoCall ==
    [n |-> 0, op |-> "none", event |-> OrderEvent("None", None, None, None),
     result |-> "none"]

----------------------------------------------------------------------------
(* Initial state: the client right after SocketClient::connect succeeded *)

Connected ==
    /\ mode = CONNECTION_ACTIVE
    /\ rcPc = [r \in ReconnectCalls |-> "idle"]
    /\ clPc = [c \in CloseCalls |-> "idle"]
    /\ ctrlPc = "run"
    /\ connAlive = TRUE
    /\ failures = 0
    /\ elapsed = 0
    /\ ioFailures = 0
    /\ postReconnection = 0
    /\ postDisconnection = 0
    /\ sendPc = [s \in Sends |-> "idle"]
    /\ sendArg = [s \in Sends |-> <<>>]
    /\ sendData = [s \in Sends |-> <<>>]
    /\ sendIdx = [s \in Sends |-> 0]
    /\ sendPrior = [s \in Sends |-> {}]
    /\ sendMode = [s \in Sends |-> "none"]
    /\ writerHolder = NoTask
    /\ wire = <<>>
    /\ hbPc = "sleep"
    /\ hbIdx = 0
    /\ beats = 0
    /\ rlLevel = RlCapacity * RlPeriod
    /\ rlHist = [i \in 1..RlPeriod |-> 0]
    /\ rlPc = [k \in LimiterCallers |-> "idle"]

\* no order call and no from_events call is under way
OrderIdle == order = NewOrder(1, 1, 1) /\ orderCall = NoCall

AccountIdle ==
    /\ acctPc = "idle"
    /\ acctEvents = <<>>
    /\ acctIdx = 0
    /\ account = NoAccount

Init == cfg = DefaultConfig /\ Connected /\ OrderIdle /\ AccountIdle

\* a client connected with any of the small configurations
InitBackoff ==
    cfg \in BackoffConfigs /\ Connected /\ OrderIdle /\ AccountIdle

\* from_events called with any list of at most MaxAccountEvents events
InitAccount ==
    /\ cfg = DefaultConfig /\ Connected /\ OrderIdle
    /\ acctPc = "start"
    /\ acctEvents \in ListsUpTo(MaxAccountEvents)
    /\ acctIdx = 0
    /\ account = NoAccount

\* an order right after TrailingStopLimitOrder::new
InitOrder ==
    /\ cfg = DefaultConfig /\ Connected /\ AccountIdle
    /\ order \in {NewOrder(q, p, tp) :
                    q \in Quantities, p \in Prices, tp \in Prices}
    /\ orderCall = NoCall

----------------------------------------------------------------------------
(* SocketClient::py_reconnect *)

\* variant: the Disconnecting arm is missing
ReconnectRejected_NoDisconnectArm(m) ==
    m \in {CONNECTION_RECONNECT, CONNECTION_CLOSED}

\* the three warn-only arms of the match
ReconnectRejected(m) ==
    m \in {CONNECTION_RECONNECT, CONNECTION_DISCONNECT, CONNECTION_CLOSED}

\* variant: the loop ends as soon as the mode is not Reconnecting
ReconnectWaitOver_NotReconnecting(m) == m # CONNECTION_RECONNECT

\* exit condition of the polling loop
ReconnectWaitOver(m) == m = CONNECTION_ACTIVE

\* the synchronous part: clone the handle, log, spawn the future
ReconnectCall(r) ==
    /\ rcPc[r] = "idle"
    /\ \A q \in ReconnectCalls : q < r => rcPc[q] # "idle"
    /\ rcPc' = [rcPc EXCEPT ![r] = "check"]
    /\ UNCHANGED domVars
    /\ UNCHANGED <<mode, clPc, ctrlVars, sendVars,
                   writerHolder, wire, hbVars, rlVars>>

\* match connection_mode.load(SeqCst)
ReconnectCheck(r) ==
    /\ rcPc[r] = "check"
    /\ rcPc' = [rcPc EXCEPT ![r] =
                   IF ReconnectRejected(mode) THEN "rejected" ELSE "store"]
    /\ UNCHANGED domVars
    /\ UNCHANGED <<mode, clPc, ctrlVars, sendVars,
                   writerHolder, wire, hbVars, rlVars>>

\* connection_mode.store(CONNECTION_RECONNECT, SeqCst)
\* variant: the default arm stores Active
ReconnectStore_StoresActive(r) ==
    /\ rcPc[r] = "store"
    /\ mode' = CONNECTION_ACTIVE
    /\ rcPc' = [rcPc EXCEPT ![r] = "wait"]
    /\ UNCHANGED domVars
    /\ UNCHANGED <<clPc, ctrlVars, sendVars, writerHolder, wire, hbVars,
                   rlVars>>

ReconnectStore(r) ==
    /\ rcPc[r] = "store"
    /\ mode' = CONNECTION_RECONNECT
    /\ rcPc' = [rcPc EXCEPT ![r] = "wait"]
    /\ UNCHANGED domVars
    /\ UNCHANGED <<clPc, ctrlVars, sendVars,
                   writerHolder, wire, hbVars, rlVars>>

\* while connection_mode.load(SeqCst) != CONNECTION_ACTIVE { sleep(10ms) }
ReconnectWait(r) ==
    /\ rcPc[r] = "wait"
    /\ ReconnectWaitOver(mode)
    /\ rcPc' = [rcPc EXCEPT ![r] = "done"]
    /\ UNCHANGED domVars
    /\ UNCHANGED <<mode, clPc, ctrlVars, sendVars,
                   writerHolder, wire, hbVars, rlVars>>

----------------------------------------------------------------------------
(* SocketClient::py_close *)

\* the two warn-only arms of the match
CloseRejected(m) == m \in {CONNECTION_CLOSED, CONNECTION_DISCONNECT}

\* variant: the loop ends as soon as the mode is not Disconnecting
CloseWaitOver_NotDisconnecting(m) == m # CONNECTION_DISCONNECT

\* exit condition of the polling loop
CloseWaitOver(m) == m = CONNECTION_CLOSED

CloseCall(c) ==
    /\ clPc[c] = "idle"
    /\ \A q \in CloseCalls : q < c => clPc[q] # "idle"
    /\ clPc' = [clPc EXCEPT ![c] = "check"]
    /\ UNCHANGED domVars
    /\ UNCHANGED <<mode, rcPc, ctrlVars, sendVars,
                   writerHolder, wire, hbVars, rlVars>>

\* match connection_mode.load(SeqCst)
CloseCheck(c) ==
    /\ clPc[c] = "check"
    /\ clPc' = [clPc EXCEPT ![c] =
                   IF CloseRejected(mode) THEN "rejected" ELSE "store"]
    /\ UNCHANGED domVars
    /\ UNCHANGED <<mode, rcPc, ctrlVars, sendVars,
                   writerHolder, wire, hbVars, rlVars>>

\* connection_mode.store(CONNECTION_DISCONNECT, SeqCst)
CloseStore(c) ==
    /\ clPc[c] = "store"
    /\ mode' = CONNECTION_DISCONNECT
    /\ clPc' = [clPc EXCEPT ![c] = "wait"]
    /\ UNCHANGED domVars
    /\ UNCHANGED <<rcPc, ctrlVars, sendVars,
                   writerHolder, wire, hbVars, rlVars>>

\* while connection_mode.load(SeqCst) != CONNECTION_CLOSED { sleep(100ms) }
CloseWait(c) ==
    /\ clPc[c] = "wait"
    /\ CloseWaitOver(mode)
    /\ clPc' = [clPc EXCEPT ![c] = "done"]
    /\ UNCHANGED domVars
    /\ UNCHANGED <<mode, rcPc, ctrlVars, sendVars,
                   writerHolder, wire, hbVars, rlVars>>

----------------------------------------------------------------------------
(* Transport (environment) *)

\* an I/O failure breaks the connection behind the Writer
IoFailure ==
    /\ connAlive
    /\ mode # CONNECTION_CLOSED
    /\ ioFailures < MaxIoFailures
    /\ connAlive' = FALSE
    /\ ioFailures' = ioFailures + 1
    /\ UNCHANGED domVars
    /\ UNCHANGED <<cfg, connVars, ctrlPc, failures, elapsed, postReconnection,
                   postDisconnection, sendVars, writerHolder, wire, hbVars,
                   rlVars>>

\* after Closed the transport resource is released once the last reference
\* to the client is dropped
TransportRelease ==
    /\ connAlive
    /\ mode = CONNECTION_CLOSED
    /\ connAlive' = FALSE
    /\ UNCHANGED domVars
    /\ UNCHANGED <<cfg, connVars, ctrlPc, failures, elapsed, ioFailures,
                   postReconnection, postDisconnection, sendVars,
                   writerHolder, wire, hbVars, rlVars>>

----------------------------------------------------------------------------
(* Controller task: the reconnect loop of crate::socket *)

\* an I/O failure while Active starts a reconnect cycle
CtrlDetectFailure ==
    /\ ctrlPc = "run"
    /\ mode = CONNECTION_ACTIVE
    /\ ~connAlive
    /\ mode' = CONNECTION_RECONNECT
    /\ UNCHANGED domVars
    /\ UNCHANGED <<rcPc, clPc, ctrlVars, sendVars,
                   writerHolder, wire, hbVars, rlVars>>

\* a transport setup attempt succeeds: install the new writer, go Active,
\* reset the backoff, invoke post_reconnection
\* variant: a successful attempt leaves the failure count as it is
CtrlAttemptSuccess_NoReset ==
    /\ ctrlPc = "run"
    /\ mode = CONNECTION_RECONNECT
    /\ elapsed < cfg.timeout
    /\ writerHolder = NoTask
    /\ mode' = CONNECTION_ACTIVE
    /\ connAlive' = TRUE
    /\ elapsed' = 0
    /\ postReconnection' = postReconnection + 1
    /\ UNCHANGED domVars
    /\ UNCHANGED <<cfg, rcPc, clPc, ctrlPc, failures, ioFailures,
                   postDisconnection, sendVars, writerHolder, wire, hbVars,
                   rlVars>>

CtrlAttemptSuccess ==
    /\ ctrlPc = "run"
    /\ mode = CONNECTION_RECONNECT
    /\ elapsed < cfg.timeout
    /\ writerHolder = NoTask
    /\ mode' = CONNECTION_ACTIVE
    /\ connAlive' = TRUE
    /\ failures' = 0
    /\ elapsed' = 0
    /\ postReconnection' = postReconnection + 1
    /\ UNCHANGED domVars
    /\ UNCHANGED <<cfg, rcPc, clPc, ctrlPc, ioFailures,
                   postDisconnection, sendVars, writerHolder, wire, hbVars,
                   rlVars>>

\* a transport setup attempt fails: advance the backoff and sleep
CtrlAttemptFail(j) ==
    /\ ctrlPc = "run"
    /\ mode = CONNECTION_RECONNECT
    /\ elapsed < cfg.timeout
    /\ failures' = failures + 1
    /\ elapsed' = Min(cfg.timeout,
                      elapsed + BackoffBase(failures) + j)
    /\ UNCHANGED domVars
    /\ UNCHANGED <<cfg, connVars, ctrlPc, connAlive, ioFailures, postReconnection,
                   postDisconnection, sendVars, writerHolder, wire, hbVars,
                   rlVars>>

\* the reconnect timeout elapsed without success: Closed, post_disconnection
CtrlTimeout ==
    /\ ctrlPc = "run"
    /\ mode = CONNECTION_RECONNECT
    /\ elapsed >= cfg.timeout
    /\ mode' = CONNECTION_CLOSED
    /\ ctrlPc' = "done"
    /\ postDisconnection' = postDisconnection + 1
    /\ UNCHANGED domVars
    /\ UNCHANGED <<cfg, rcPc, clPc, connAlive, failures, elapsed,
                   ioFailures, postReconnection, sendVars, writerHolder,
                   wire, hbVars, rlVars>>

\* a close request is honoured: Closed, post_disconnection
\* variant: the controller keeps running after it has closed the client
CtrlDisconnect_KeepsRunning ==
    /\ ctrlPc = "run"
    /\ mode = CONNECTION_DISCONNECT
    /\ mode' = CONNECTION_CLOSED
    /\ postDisconnection' = postDisconnection + 1
    /\ UNCHANGED domVars
    /\ UNCHANGED <<cfg, rcPc, clPc, ctrlPc, connAlive, failures, elapsed,
                   ioFailures, postReconnection, sendVars, writerHolder,
                   wire, hbVars, rlVars>>

CtrlDisconnect ==
    /\ ctrlPc = "run"
    /\ mode = CONNECTION_DISCONNECT
    /\ mode' = CONNECTION_CLOSED
    /\ ctrlPc' = "done"
    /\ postDisconnection' = postDisconnection + 1
    /\ UNCHANGED domVars
    /\ UNCHANGED <<cfg, rcPc, clPc, connAlive, failures, elapsed,
                   ioFailures, postReconnection, sendVars, writerHolder,
                   wire, hbVars, rlVars>>

----------------------------------------------------------------------------
(* SocketClient::py_send *)

\* variant: the suffix is not appended
Frame_NoSuffix(data) == data

\* data.extend(&slf.suffix)
Frame(data) == data \o suffix

\* variant: the writer is handed out without mutual exclusion
WriterAvailable_Unguarded(holder) == TRUE

\* writer.lock().await is granted only while nobody holds the guard
WriterAvailable(holder) == holder = NoTask

Returned(s) == sendPc[s] \in {"ok", "err"}

\* the synchronous part: append the suffix, clone the writer handle, spawn
\* the future.  One caller issues its sends in index order; a send may be
\* issued before the earlier ones have completed.
SendInvoke(s, b) ==
    /\ sendPc[s] = "idle"
    /\ \A t \in Sends : t < s => sendPc[t] # "idle"
    /\ sendArg' = [sendArg EXCEPT ![s] = b]
    /\ sendData' = [sendData EXCEPT ![s] = Frame(b)]
    /\ sendPrior' = [sendPrior EXCEPT ![s] = {t \in Sends : Returned(t)}]
    /\ sendPc' = [sendPc EXCEPT ![s] = "spawned"]
    /\ UNCHANGED domVars
    /\ UNCHANGED <<connVars, ctrlVars, sendIdx, writerHolder, wire, hbVars,
                   rlVars>>

SendCall(s, b) == SendInvoke(s, b) /\ UNCHANGED sendMode

\* the same call, with the connection mode at the time of the call recorded
SendCallInMode(s, b) ==
    SendInvoke(s, b) /\ sendMode' = [sendMode EXCEPT ![s] = mode]

\* let mut writer = writer.lock().await
SendLock(s) ==
    /\ sendPc[s] = "spawned"
    /\ WriterAvailable(writerHolder)
    /\ writerHolder' = s
    /\ sendPc' = [sendPc EXCEPT ![s] = "write"]
    /\ UNCHANGED domVars
    /\ UNCHANGED <<connVars, ctrlVars, sendArg, sendData, sendIdx, sendPrior,
                   sendMode, wire, hbVars, rlVars>>

\* write_all: one more byte accepted by the transport
SendWrite(s) ==
    /\ sendPc[s] = "write"
    /\ sendIdx[s] < Len(sendData[s])
    /\ connAlive
    /\ wire' = Append(wire, <<s, 1, sendData[s][sendIdx[s] + 1],
                             postReconnection>>)
    /\ sendIdx' = [sendIdx EXCEPT ![s] = @ + 1]
    /\ UNCHANGED domVars
    /\ UNCHANGED <<connVars, ctrlVars, sendPc, sendArg, sendData, sendPrior,
                   sendMode, writerHolder, hbVars, rlVars>>

\* write_all(..)? fails: the error is returned and the guard is dropped
\* variant: the failed write returns without dropping the guard
SendWriteErr_KeepsGuard(s) ==
    /\ sendPc[s] = "write"
    /\ sendIdx[s] < Len(sendData[s])
    /\ ~connAlive
    /\ sendPc' = [sendPc EXCEPT ![s] = "err"]
    /\ UNCHANGED domVars
    /\ UNCHANGED <<connVars, ctrlVars, sendArg, sendData, sendIdx, sendPrior,
                   sendMode, writerHolder, wire, hbVars, rlVars>>

SendWriteErr(s) ==
    /\ sendPc[s] = "write"
    /\ sendIdx[s] < Len(sendData[s])
    /\ ~connAlive
    /\ sendPc' = [sendPc EXCEPT ![s] = "err"]
    /\ writerHolder' = IF writerHolder = s THEN NoTask ELSE writerHolder
    /\ UNCHANGED domVars
    /\ UNCHANGED <<connVars, ctrlVars, sendArg, sendData, sendIdx, sendPrior,
                   sendMode, wire, hbVars, rlVars>>

\* Ok(()): all bytes written, the guard is dropped
SendReturn(s) ==
    /\ sendPc[s] = "write"
    /\ sendIdx[s] = Len(sendData[s])
    /\ sendPc' = [sendPc EXCEPT ![s] = "ok"]
    /\ writerHolder' = IF writerHolder = s THEN NoTask ELSE writerHolder
    /\ UNCHANGED domVars
    /\ UNCHANGED <<connVars, ctrlVars, sendArg, sendData, sendIdx, sendPrior,
                   sendMode, wire, hbVars, rlVars>>

----------------------------------------------------------------------------
(* Heartbeat monitor of crate::socket *)

\* an interval tick while Active: take the Writer for one keep-alive
HbBeat ==
    /\ hbPc = "sleep"
    /\ beats < MaxBeats
    /\ mode = CONNECTION_ACTIVE
    /\ writerHolder = NoTask
    /\ writerHolder' = HbTask
    /\ hbPc' = "write"
    /\ hbIdx' = 0
    /\ beats' = beats + 1
    /\ UNCHANGED domVars
    /\ UNCHANGED <<connVars, ctrlVars, sendVars, wire, rlVars>>

\* variant: a tick while Reconnecting or Disconnecting still takes the Writer
HbSkip_Writes ==
    /\ hbPc = "sleep"
    /\ beats < MaxBeats
    /\ mode \in {CONNECTION_RECONNECT, CONNECTION_DISCONNECT}
    /\ writerHolder = NoTask
    /\ writerHolder' = HbTask
    /\ hbPc' = "write"
    /\ hbIdx' = 0
    /\ beats' = beats + 1
    /\ UNCHANGED domVars
    /\ UNCHANGED <<connVars, ctrlVars, sendVars, wire, rlVars>>

\* an interval tick while not Active: the beat is skipped
HbSkip ==
    /\ hbPc = "sleep"
    /\ beats < MaxBeats
    /\ mode \in {CONNECTION_RECONNECT, CONNECTION_DISCONNECT}
    /\ beats' = beats + 1
    /\ UNCHANGED domVars
    /\ UNCHANGED <<connVars, ctrlVars, sendVars, writerHolder, wire, hbPc,
                   hbIdx, rlVars>>

\* the monitor terminates once the mode is Closed
HbStop ==
    /\ hbPc = "sleep"
    /\ mode = CONNECTION_CLOSED
    /\ hbPc' = "done"
    /\ UNCHANGED domVars
    /\ UNCHANGED <<connVars, ctrlVars, sendVars, writerHolder, wire, hbIdx,
                   beats, rlVars>>

HbWrite ==
    /\ hbPc = "write"
    /\ hbIdx < Len(HeartbeatPayload)
    /\ connAlive
    /\ wire' = Append(wire, <<HbTask, beats, HeartbeatPayload[hbIdx + 1],
                             postReconnection>>)
    /\ hbIdx' = hbIdx + 1
    /\ UNCHANGED domVars
    /\ UNCHANGED <<connVars, ctrlVars, sendVars, writerHolder, hbPc, beats,
                   rlVars>>

\* the write completed or failed: release the Writer
HbRelease ==
    /\ hbPc = "write"
    /\ hbIdx = Len(HeartbeatPayload) \/ ~connAlive
    /\ hbPc' = "sleep"
    /\ writerHolder' = IF writerHolder = HbTask THEN NoTask ELSE writerHolder
    /\ UNCHANGED domVars
    /\ UNCHANGED <<connVars, ctrlVars, sendVars, wire, hbIdx, beats, rlVars>>

----------------------------------------------------------------------------
(* Rate limiter (crate::ratelimiter): one bucket, refilled continuously.   *)
(* The level is kept in units of 1/RlPeriod, so that one tick of the       *)
(* clock refills one level unit and one admission costs RlPeriod of them.  *)

RECURSIVE SeqSum(_)
SeqSum(q) == IF q = <<>> THEN 0 ELSE Head(q) + SeqSum(Tail(q))

\* variant: the refill is not capped at the burst capacity
RlRefill_Uncapped(level) == level + 1

\* refill for one tick, never above the burst capacity
RlRefill(level) == Min(RlCapacity * RlPeriod, level + 1)

\* a unit is available
RlAvailable(level) == level >= RlPeriod

\* the clock advances by one tick
RlTick ==
    /\ rlLevel' = RlRefill(rlLevel)
    /\ rlHist' = Append(Tail(rlHist), 0)
    /\ UNCHANGED domVars
    /\ UNCHANGED <<connVars, ctrlVars, sendVars, writerHolder, wire, hbVars,
                   rlPc>>

\* acquire(key) is called: the caller suspends until permitted
RlCall(k) ==
    /\ rlPc[k] = "idle"
    /\ rlPc' = [rlPc EXCEPT ![k] = "waiting"]
    /\ UNCHANGED domVars
    /\ UNCHANGED <<connVars, ctrlVars, sendVars, writerHolder, wire, hbVars,
                   rlLevel, rlHist>>

\* the caller is admitted: one unit is consumed
RlAdmit(k) ==
    /\ rlPc[k] = "waiting"
    /\ RlAvailable(rlLevel)
    /\ rlLevel' = rlLevel - RlPeriod
    /\ rlHist' = [rlHist EXCEPT ![RlPeriod] = @ + 1]
    /\ rlPc' = [rlPc EXCEPT ![k] = "idle"]
    /\ UNCHANGED domVars
    /\ UNCHANGED <<connVars, ctrlVars, sendVars, writerHolder, wire, hbVars>>

----------------------------------------------------------------------------
(* TrailingStopLimitOrder (model/src/orders/trailing_stop_limit.rs).  The  *)
(* order wraps an OrderCore, whose code (orders/base.rs) is not part of    *)
(* the sources at hand: the core is modelled as a status machine that      *)
(* rejects an event without changing anything, or accepts it, records it   *)
(* and, for a fill, moves the filled quantity.                             *)

\* the status the core moves to on an event, or "Invalid"
Transition(o, e) ==
    CASE o.status = "Initialized" /\ e.type = "Accepted" -> "Accepted"
      [] o.status = "Initialized" /\ e.type = "Canceled" -> "Canceled"
      [] o.status \in {"Accepted", "PartiallyFilled"} /\ e.type = "Updated"
            -> o.status
      [] o.status \in {"Accepted", "PartiallyFilled"} /\ e.type = "Canceled"
            -> "Canceled"
      [] o.status \in {"Accepted", "PartiallyFilled"} /\ e.type = "Filled"
            -> IF e.quantity >= o.leaves_qty THEN "Filled"
               ELSE "PartiallyFilled"
      [] OTHER -> "Invalid"

\* OrderCore::apply: Err(OrderError) with the core untouched, or Ok(())
CoreApply(o, e) ==
    IF Transition(o, e) = "Invalid"
    THEN [ok |-> FALSE, order |-> o]
    ELSE [ok |-> TRUE,
          order |->
            [o EXCEPT
                !.status = Transition(o, e),
                !.events = Append(o.events, e),
                !.filled_qty = IF e.type = "Filled"
                               THEN o.filled_qty + e.quantity
                               ELSE o.filled_qty,
                !.leaves_qty = IF e.type = "Filled"
                               THEN o.leaves_qty - e.quantity
                               ELSE o.leaves_qty]]

\* update, lines 373-381: the assignments before the subtraction
UpdateAssign(o, e) ==
    [o EXCEPT
        !.price = IF e.price # None THEN e.price ELSE o.price,
        !.trigger_price = IF e.trigger_price # None THEN e.trigger_price
                          ELSE o.trigger_price,
        !.quantity = e.quantity]

\* update: self.leaves_qty = self.quantity - self.filled_qty on unsigned
\* quantities.  When the difference is negative the subtraction either
\* panics, leaving the assignments made so far, or wraps around.
UpdateOutcomes(o, e) ==
    LET a == UpdateAssign(o, e) IN
    IF a.quantity >= a.filled_qty
    THEN {[panicked |-> FALSE,
           order |-> [a EXCEPT !.leaves_qty = a.quantity - a.filled_qty]]}
    ELSE {[panicked |-> TRUE, order |-> a],
          [panicked |-> FALSE,
           order |-> [a EXCEPT !.leaves_qty =
                        (a.quantity + QtyModulus - a.filled_qty)
                            % QtyModulus]]}

\* TrailingStopLimitOrder::update called on the order
OrderUpdate(e) ==
    /\ orderCall.n < MaxOrderCalls
    /\ orderCall.result # "panic"
    /\ \E out \in UpdateOutcomes(order, e) :
          /\ order' = out.order
          /\ orderCall' = [n |-> orderCall.n + 1, op |-> "update",
                           event |-> e,
                           result |-> IF out.panicked THEN "panic" ELSE "ok"]
    /\ UNCHANGED <<connVars, ctrlVars, sendVars, writerHolder, wire, hbVars,
                   rlVars, acctVars>>

\* TrailingStopLimitOrder::apply: update first when the event is Updated,
\* then the core, then the slippage of a fill
OrderApply(e) ==
    /\ orderCall.n < MaxOrderCalls
    /\ orderCall.result # "panic"
    /\ e.type = "Filled" => e.quantity <= order.leaves_qty
    /\ \E out \in (IF e.type = "Updated" THEN UpdateOutcomes(order, e)
                    ELSE {[panicked |-> FALSE, order |-> order]}) :
          LET r == CoreApply(out.order, e) IN
          /\ order' =
                IF out.panicked \/ ~r.ok THEN out.order
                ELSE IF e.type = "Filled"
                     THEN [r.order EXCEPT !.slippage = r.order.price]
                     ELSE r.order
          /\ orderCall' = [n |-> orderCall.n + 1, op |-> "apply",
                           event |-> e,
                           result |-> IF out.panicked THEN "panic"
                                      ELSE IF r.ok THEN "ok" ELSE "err"]
    /\ UNCHANGED <<connVars, ctrlVars, sendVars, writerHolder, wire, hbVars,
                   rlVars, acctVars>>

----------------------------------------------------------------------------
(* AccountAny (model/src/accounts/any.rs).  MarginAccount and CashAccount  *)
(* are not part of the sources at hand: an account is modelled as its      *)
(* variant, the events applied to it and the balance of its last event.    *)

\* MarginAccount::new(event, false) / CashAccount::new(event, false)
NewAccount(variant, event) ==
    [variant |-> variant, events |-> <<event>>, balance |-> event.balance]

\* impl From<AccountState> for AccountAny: TRUE when the match arm is todo!()
FromPanics(event) == event.account_type = "Betting"

\* impl From<AccountState> for AccountAny, the two implemented arms
FromAccountState(event) ==
    IF event.account_type = "Margin" THEN NewAccount("Margin", event)
    ELSE NewAccount("Cash", event)

\* AccountAny::apply: the variant's apply records the event
AccountApply(acc, event) ==
    [acc EXCEPT !.events = Append(acc.events, event),
                !.balance = event.balance]

\* from_events: events.is_empty() => bail!
AcctCheckEmpty ==
    /\ acctPc = "start"
    /\ acctPc' = IF acctEvents = <<>> THEN "err" ELSE "init"
    /\ UNCHANGED <<connVars, ctrlVars, sendVars, writerHolder, wire, hbVars,
                   rlVars, orderVars, acctEvents, acctIdx, account>>

\* from_events: Self::from(init_event.clone())
AcctFromFirst ==
    /\ acctPc = "init"
    /\ IF FromPanics(acctEvents[1])
       THEN acctPc' = "panic" /\ UNCHANGED <<account, acctIdx>>
       ELSE /\ acctPc' = "loop"
            /\ account' = FromAccountState(acctEvents[1])
            /\ acctIdx' = 1
    /\ UNCHANGED <<connVars, ctrlVars, sendVars, writerHolder, wire, hbVars,
                   rlVars, orderVars, acctEvents>>

\* from_events: one round of for event in events.iter().skip(1)
AcctApplyNext ==
    /\ acctPc = "loop"
    /\ acctIdx < Len(acctEvents)
    /\ account' = AccountApply(account, acctEvents[acctIdx + 1])
    /\ acctIdx' = acctIdx + 1
    /\ UNCHANGED <<connVars, ctrlVars, sendVars, writerHolder, wire, hbVars,
                   rlVars, orderVars, acctPc, acctEvents>>

\* from_events: Ok(account)
AcctReturn ==
    /\ acctPc = "loop"
    /\ acctIdx = Len(acctEvents)
    /\ acctPc' = "ok"
    /\ UNCHANGED <<connVars, ctrlVars, sendVars, writerHolder, wire, hbVars,
                   rlVars, orderVars, acctEvents, acctIdx, account>>

----------------------------------------------------------------------------
(* Specifications *)

Lifecycle ==
    \/ \E r \in ReconnectCalls :
          ReconnectCall(r) \/ ReconnectCheck(r) \/ ReconnectStore(r)
            \/ ReconnectWait(r)
    \/ \E c \in CloseCalls :
          CloseCall(c) \/ CloseCheck(c) \/ CloseStore(c) \/ CloseWait(c)

Transport == IoFailure \/ TransportRelease

ReconnectLoop ==
    \/ CtrlDetectFailure
    \/ CtrlAttemptSuccess
    \/ \E j \in JitterSet : CtrlAttemptFail(j)
    \/ CtrlTimeout

Controller == ReconnectLoop \/ CtrlDisconnect

SendSteps ==
    \E s \in Sends :
        SendLock(s) \/ SendWrite(s) \/ SendWriteErr(s) \/ SendReturn(s)

Sending ==
    \/ \E s \in Sends, b \in PayloadSet : SendCall(s, b)
    \/ SendSteps

SendingInMode ==
    \/ \E s \in Sends, b \in PayloadSet : SendCallInMode(s, b)
    \/ SendSteps

Heartbeat == HbBeat \/ HbSkip \/ HbStop \/ HbWrite \/ HbRelease

\* the lifecycle operations against the controller task
Next == Lifecycle \/ Transport \/ Controller

Spec == Init /\ [][Next]_vars

\* scheduling: the runtime keeps polling every spawned future, so a call
\* that was issued takes each of its steps once the step stays possible, and
\* the controller task keeps running; whether an attempt succeeds or fails
\* is the environment's choice, as are I/O failures and new calls
LifecycleFairness ==
    /\ \A r \in ReconnectCalls :
           /\ WF_vars(ReconnectCheck(r))
           /\ WF_vars(ReconnectStore(r))
           /\ WF_vars(ReconnectWait(r))
    /\ \A c \in CloseCalls :
           /\ WF_vars(CloseCheck(c))
           /\ WF_vars(CloseStore(c))
           /\ WF_vars(CloseWait(c))

ControllerFairness ==
    /\ WF_vars(ReconnectLoop)
    /\ WF_vars(CtrlDisconnect)

SpecFair == Spec /\ LifecycleFairness /\ ControllerFairness

\* the data path: sends and heartbeats over a transport that may fail and
\* be re-established by the reconnect loop
NextWrite == Sending \/ Heartbeat \/ IoFailure \/ ReconnectLoop

SpecWrite == Init /\ [][NextWrite]_vars

\* scheduling: a spawned send future is polled until it completes
SendFairness ==
    \A s \in Sends :
        /\ WF_vars(SendLock(s))
        /\ WF_vars(SendWrite(s))
        /\ WF_vars(SendWriteErr(s))
        /\ WF_vars(SendReturn(s))

\* the sends alone against the transport and the reconnect loop
NextGuard == Sending \/ IoFailure \/ ReconnectLoop

SpecGuardFair == Init /\ [][NextGuard]_vars /\ SendFairness

\* the data path against one close() and one reconnect() caller and the
\* controller task
NextSend ==
    \/ SendingInMode
    \/ Heartbeat
    \/ Transport
    \/ Controller
    \/ ReconnectCall(1) \/ ReconnectCheck(1) \/ ReconnectStore(1)
    \/ ReconnectWait(1)
    \/ CloseCall(1) \/ CloseCheck(1) \/ CloseStore(1) \/ CloseWait(1)

SpecSend == Init /\ [][NextSend]_vars

\* the rate limiter under concurrent callers and a discrete clock
\* the reconnect loop and its backoff under the small configurations, with
\* one reconnect() caller
NextBackoff ==
    \/ IoFailure
    \/ ReconnectLoop
    \/ ReconnectCall(1) \/ ReconnectCheck(1)
    \/ ReconnectStore(1) \/ ReconnectWait(1)

SpecBackoff == InitBackoff /\ [][NextBackoff]_vars

\* the heartbeat monitor against one reconnect() call, one close() call, the
\* transport and the controller
NextHeartbeat ==
    \/ Heartbeat
    \/ Transport
    \/ Controller
    \/ ReconnectCall(1) \/ ReconnectCheck(1)
    \/ ReconnectStore(1) \/ ReconnectWait(1)
    \/ CloseCall(1) \/ CloseCheck(1) \/ CloseStore(1) \/ CloseWait(1)

SpecHeartbeat == Init /\ [][NextHeartbeat]_vars

\* calls of apply and update on one order
NextOrder ==
    \/ \E e \in OrderEvents : OrderApply(e)
    \/ \E e \in UpdatedEvents : OrderUpdate(e)

SpecOrder == InitOrder /\ [][NextOrder]_vars

\* one call of from_events
NextAccount == AcctCheckEmpty \/ AcctFromFirst \/ AcctApplyNext \/ AcctReturn

SpecAccount == InitAccount /\ [][NextAccount]_vars

NextLimiter ==
    \/ RlTick
    \/ \E k \in LimiterCallers : RlCall(k) \/ RlAdmit(k)

SpecLimiter == Init /\ [][NextLimiter]_vars

----------------------------------------------------------------------------
(* Properties of the lifecycle operations (checked under Spec) *)

CloseReturned(c) == clPc[c] \in {"done", "rejected"}
ReconnectReturned(r) == rcPc[r] \in {"done", "rejected"}

\* C1: once the connection mode equals Closed it never takes another value,
\* whatever reconnect() and close() calls are in progress.
C1_ClosedIsTerminal ==
    [][mode = CONNECTION_CLOSED => mode' = CONNECTION_CLOSED]_vars

\* C2 (as claimed): whenever a close() call returns, the mode is Closed.
C2_CloseReturnsOnlyWhenClosed ==
    [][\A c \in CloseCalls :
          (~CloseReturned(c) /\ CloseReturned(c)') =>
              mode' = CONNECTION_CLOSED]_vars

\* C2 (amended): a close() call that matched Active or Reconnecting returns
\* only from its polling loop, on a read of the mode that yields Closed; a
\* close() call returns without waiting only when it matched Closed or
\* Disconnecting, and then leaves the mode as it found it.
C2_CloseReturn ==
    [][\A c \in CloseCalls :
          /\ (clPc[c] # "done" /\ clPc'[c] = "done") =>
                 /\ clPc[c] = "wait"
                 /\ mode = CONNECTION_CLOSED
                 /\ mode' = CONNECTION_CLOSED
          /\ (clPc[c] # "rejected" /\ clPc'[c] = "rejected") =>
                 /\ clPc[c] = "check"
                 /\ mode \in {CONNECTION_CLOSED, CONNECTION_DISCONNECT}
                 /\ mode' = mode
          /\ (clPc[c] = "check" /\ clPc'[c] # "check"
                /\ mode \in {CONNECTION_ACTIVE, CONNECTION_RECONNECT}) =>
                 clPc'[c] = "store"
          /\ (clPc[c] = "store" /\ clPc'[c] # "store") =>
                 clPc'[c] = "wait" /\ mode' = CONNECTION_DISCONNECT]_vars

\* one close() has returned from its wait with the mode Closed, another has
\* returned at once from a warn-only arm
C2_Witness ==
    /\ mode = CONNECTION_CLOSED
    /\ \E c, d \in CloseCalls : clPc[c] = "done" /\ clPc[d] = "rejected"

\* C3: close() is idempotent.  With no reconnect() issued, once every close()
\* call has been issued and is past its store and the controller task has
\* finished, the mode is the terminal mode Closed, as after a single close().
C3_CloseIdempotent ==
    (/\ \A r \in ReconnectCalls : rcPc[r] = "idle"
     /\ \A c \in CloseCalls : clPc[c] \in {"wait", "done", "rejected"}
     /\ ctrlPc = "done")
        => mode = CONNECTION_CLOSED

\* C4: a reconnect() call that matches Reconnecting, Disconnecting or Closed
\* returns at once (it never enters the polling loop) and leaves the mode and
\* the state of the reconnect attempt in progress unchanged.
C4_RejectedReconnectIsNoOp ==
    [][\A r \in ReconnectCalls :
          (/\ rcPc[r] = "check"
           /\ rcPc'[r] # "check"
           /\ mode \in {CONNECTION_RECONNECT, CONNECTION_DISCONNECT,
                        CONNECTION_CLOSED}) =>
              /\ rcPc'[r] = "rejected"
              /\ mode' = mode
              /\ failures' = failures
              /\ elapsed' = elapsed
              /\ ctrlPc' = ctrlPc
              /\ connAlive' = connAlive]_vars

\* a reconnect() was rejected while a reconnect cycle with failed attempts
\* is in progress
C4_Witness ==
    /\ mode = CONNECTION_RECONNECT
    /\ failures > 0
    /\ \E r \in ReconnectCalls : rcPc[r] = "rejected"

\* C5: a reconnect() call that matches Active is accepted: its next step
\* stores Reconnecting, and it returns only from its polling loop, on a read
\* of the mode that yields Active.
C5_AcceptedReconnect ==
    [][\A r \in ReconnectCalls :
          /\ (rcPc[r] = "check" /\ rcPc'[r] # "check"
                /\ mode = CONNECTION_ACTIVE) => rcPc'[r] = "store"
          /\ (rcPc[r] = "store" /\ rcPc'[r] # "store") =>
                 rcPc'[r] = "wait" /\ mode' = CONNECTION_RECONNECT
          /\ (rcPc[r] = "wait" /\ rcPc'[r] # "wait") =>
                 /\ rcPc'[r] = "done"
                 /\ mode = CONNECTION_ACTIVE
                 /\ mode' = CONNECTION_ACTIVE
          /\ (rcPc[r] # "done" /\ rcPc'[r] = "done") => rcPc[r] = "wait"]_vars

\* an accepted reconnect() has returned after a reconnect cycle completed
C5_Witness ==
    /\ postReconnection > 0
    /\ \E r \in ReconnectCalls : rcPc[r] = "done"

----------------------------------------------------------------------------
(* Properties of the data path (checked under SpecWrite and SpecSend) *)

\* positions on the wire of the bytes of send s
Pos(s) == {i \in DOMAIN wire : wire[i][1] = s}

\* the bytes on the wire that belong to frame n of a task, in wire order
BytesOf(task, n) ==
    LET sel == SelectSeq(wire, LAMBDA e : e[1] = task /\ e[2] = n)
    IN  [i \in 1..Len(sel) |-> sel[i][3]]

IsPrefix(p, q) == Len(p) <= Len(q) /\ p = SubSeq(q, 1, Len(p))

Before(s, t) == \A i \in Pos(s), k \in Pos(t) : i < k

\* C6 (as claimed): the frames of the successful sends of one caller are on
\* the wire as payload + suffix, in the order in which send was invoked,
\* also for sends invoked before an earlier one completed.
C6_FramesInInvocationOrder ==
    \A s, t \in Sends :
        (sendPc[s] = "ok" /\ sendPc[t] = "ok") =>
            /\ BytesOf(s, 1) = sendArg[s] \o suffix
            /\ (s < t => Before(s, t))

\* C6 (amended): a send that returned success has put exactly its payload
\* followed by one copy of the suffix on the wire; a send that returned an
\* error has put a proper prefix of that frame there; and the frame of a send
\* that had returned before a later send was invoked precedes the later
\* send's frame.
C6_FramesInCompletionOrder ==
    \A t \in Sends :
        /\ sendPc[t] = "ok" => BytesOf(t, 1) = sendArg[t] \o suffix
        /\ sendPc[t] = "err" =>
              /\ IsPrefix(BytesOf(t, 1), sendArg[t] \o suffix)
              /\ Len(BytesOf(t, 1)) < Len(sendArg[t] \o suffix)
        /\ \A s \in sendPrior[t] : Before(s, t)

\* two sends issued one after the other's return, both successful
C6_Witness ==
    /\ \A s \in Sends : sendPc[s] = "ok"
    /\ \E s, t \in Sends : s \in sendPrior[t]
    /\ Len(wire) >= 2 * Len(suffix) + 2

\* tasks that hold the Writer guard
Holders ==
    {s \in Sends : sendPc[s] = "write"}
        \cup (IF hbPc = "write" THEN {HbTask} ELSE {})

SameFrame(i, k) == wire[i][1] = wire[k][1] /\ wire[i][2] = wire[k][2]

FrameOf(task) == IF task = HbTask THEN HeartbeatPayload ELSE sendData[task]

\* C7: at most one task holds the Writer, and the bytes of a frame are on
\* the wire contiguously and in order: each connection's byte stream is a
\* concatenation of whole frames, except that the frame being written, or the
\* frame cut off when the connection broke, may be incomplete at its end.
C7_WritesAreExclusive ==
    /\ Cardinality(Holders) <= 1
    /\ \A i \in DOMAIN wire :
          \/ i = Len(wire)
          \/ /\ SameFrame(i, i + 1)
             /\ wire[i + 1][4] = wire[i][4]
          \/ /\ \A k \in (i + 1)..Len(wire) : ~SameFrame(i, k)
             /\ \/ BytesOf(wire[i][1], wire[i][2]) = FrameOf(wire[i][1])
                \/ \A k \in (i + 1)..Len(wire) : wire[k][4] # wire[i][4]
    /\ \A s \in Sends : IsPrefix(BytesOf(s, 1), sendData[s])
    /\ \A n \in 1..beats : IsPrefix(BytesOf(HbTask, n), HeartbeatPayload)

\* two overlapping sends and a heartbeat have all written their frames
C7_Witness ==
    /\ \A s \in Sends : sendPc[s] = "ok"
    /\ \E t \in Sends : t > 1 /\ sendPrior[t] = {}
    /\ \E i \in DOMAIN wire : wire[i][1] = HbTask

\* C8: a send invoked while the mode is not Active returns an error and
\* delivers no byte of its payload (stated for the states in which the mode
\* is not Active, where no later return to Active can account for a write).
C8_SendFailsUnlessActive ==
    \A s \in Sends :
        (/\ sendMode[s] \in {CONNECTION_RECONNECT, CONNECTION_DISCONNECT,
                              CONNECTION_CLOSED}
         /\ mode # CONNECTION_ACTIVE) =>
            sendPc[s] # "ok" /\ Pos(s) = {}

\* units taken from the rate limiter bucket (the clock does not advance in
\* SpecSend, so the level only falls by admissions)
UnitsTaken == (RlCapacity * RlPeriod - rlLevel) \div RlPeriod

\* C9: no send reaches the Writer unless it has first acquired one unit from
\* the rate limiter: the sends at or past the Writer are matched by units
\* taken from the bucket.
C9_SendsPassRateLimiter ==
    Cardinality({s \in Sends : sendPc[s] \in {"write", "ok", "err"}})
        <= UnitsTaken

----------------------------------------------------------------------------
(* Properties of the rate limiter (checked under SpecLimiter) *)

\* C10: the admissions within any RlPeriod consecutive ticks (a window of
\* length 1/rate) never exceed the burst capacity, and the bucket level stays
\* between zero and the capacity.
C10_RateNeverExceeded ==
    /\ SeqSum(rlHist) <= RlCapacity
    /\ rlLevel >= 0
    /\ rlLevel <= RlCapacity * RlPeriod

\* a burst has used up the capacity within one window and a caller is
\* suspended on the empty bucket
C10_Witness ==
    /\ SeqSum(rlHist) = RlCapacity
    /\ ~RlAvailable(rlLevel)
    /\ \E k \in LimiterCallers : rlPc[k] = "waiting"

----------------------------------------------------------------------------
(* Backoff *)

ValidBackoff ==
    /\ cfg.factor_num >= cfg.factor_den
    /\ cfg.delay_initial <= cfg.delay_max

\* C13: for every configuration with factor >= 1 and initial_delay <=
\* max_delay and every failure count n the loop reaches, every delay
\* (base plus any jitter) lies in [initial_delay, max_delay + jitter_bound],
\* the base min(max_delay, initial_delay * factor^n) does not decrease from
\* n to n + 1, and once it equals max_delay it stays there.
C13_DelayBounds ==
    ValidBackoff =>
        /\ \A j \in 0..cfg.jitter :
               /\ cfg.delay_initial <= BackoffBase(failures) + j
               /\ BackoffBase(failures) + j <= cfg.delay_max + cfg.jitter
        /\ BackoffBase(failures) <= BackoffBase(failures + 1)
        /\ BackoffBase(failures) = cfg.delay_max
               => BackoffBase(failures + 1) = cfg.delay_max

\* the base has grown from the initial delay and has reached the cap
C13_Witness ==
    /\ ValidBackoff
    /\ cfg.factor_num > cfg.factor_den
    /\ cfg.delay_initial < cfg.delay_max
    /\ failures >= 2
    /\ BackoffBase(failures - 1) < cfg.delay_max
    /\ BackoffBase(failures) = cfg.delay_max

\* C14: the reconnect loop resets the failure count on every successful
\* connection, whatever the count was, and the first delay computed after a
\* reset (the first failed attempt of a cycle) lies in
\* [initial_delay, initial_delay + jitter_bound].
C14_ResetRestoresInitialDelay ==
    [][/\ (mode = CONNECTION_RECONNECT /\ mode' = CONNECTION_ACTIVE)
            => failures' = 0 /\ elapsed' = 0
       /\ (failures' = failures + 1 /\ elapsed = 0)
            => /\ elapsed' >= cfg.delay_initial
               /\ elapsed' <= cfg.delay_initial + cfg.jitter]_vars

\* the first failed attempt of a cycle that follows a successful reconnect
C14_Witness ==
    /\ postReconnection > 0
    /\ mode = CONNECTION_RECONNECT
    /\ failures = 1
    /\ elapsed >= cfg.delay_initial
    /\ elapsed <= cfg.delay_initial + cfg.jitter

----------------------------------------------------------------------------
(* Reconnect loop and callbacks *)

\* C11: when the reconnect timeout has run out with every attempt since the
\* I/O failure failed, the mode is Closed and stays Closed.
C11_TimeoutEndsClosed ==
    (ctrlPc = "done" /\ postReconnection = 0 /\ elapsed >= cfg.timeout)
        => mode = CONNECTION_CLOSED

\* C12: the post-disconnection callback is invoked only by a step that takes
\* the mode to Closed, at most once, and it has been invoked exactly once in
\* every state whose mode is Closed; no close() call adds an invocation.
C12_PostDisconnectionOnce ==
    /\ [](mode = CONNECTION_CLOSED => postDisconnection = 1)
    /\ [](postDisconnection <= 1)
    /\ [][postDisconnection' # postDisconnection
            => /\ mode # CONNECTION_CLOSED
               /\ mode' = CONNECTION_CLOSED
               /\ postDisconnection' = postDisconnection + 1]_vars

\* the timeout ran out while a close() was accepted, a second close() was
\* rejected, and the callback ran once
C12_Witness ==
    /\ postDisconnection = 1
    /\ elapsed >= cfg.timeout
    /\ \E c \in CloseCalls : clPc[c] \in {"wait", "done"}
    /\ \E c \in CloseCalls : clPc[c] = "rejected"

\* C16: after a close() is accepted the mode eventually is Closed, the
\* controller task with its reconnect loop terminates, and the close()
\* caller returns.
C16_AcceptedCloseTerminates ==
    \A c \in CloseCalls :
        (clPc[c] = "wait")
            ~> (clPc[c] = "done" /\ ctrlPc = "done"
                /\ mode = CONNECTION_CLOSED)

\* C17: from Disconnecting the mode moves only to Closed.
C17_DisconnectingOnlyToClosed ==
    [][mode = CONNECTION_DISCONNECT
        => mode' \in {CONNECTION_DISCONNECT, CONNECTION_CLOSED}]_vars

C20_AcceptedReconnectReturns ==
    \A r \in ReconnectCalls : (rcPc[r] = "wait") ~> (rcPc[r] = "done")

----------------------------------------------------------------------------
(* Heartbeat *)

\* the step puts a byte of a heartbeat payload on the wire
HbByteWritten ==
    /\ Len(wire') = Len(wire) + 1
    /\ wire'[Len(wire')][1] = HbTask

\* the step is an interval tick of the monitor
HbTick == beats' = beats + 1

----------------------------------------------------------------------------
(* Release of the Writer *)

\* C19: the Writer is held only by a task that is writing, so a send that
\* returned, with success or with an error part-way through its frame, has
\* released it; and every spawned send eventually acquires the Writer and
\* returns.
C19_WriterReleasedOnEveryExit ==
    /\ [](\A s \in Sends : writerHolder = s => sendPc[s] = "write")
    /\ \A s \in Sends : (sendPc[s] = "spawned") ~> Returned(s)

\* a send failed after the first byte of its frame, and a send invoked after
\* that failure was returned has written its frame and returned success
C19_Witness ==
    \E s, t \in Sends :
        /\ sendPc[s] = "err"
        /\ sendIdx[s] > 0
        /\ s \in sendPrior[t]
        /\ sendPc[t] = "ok"

----------------------------------------------------------------------------
(* Orders *)

OrderCalled(op) == orderCall'.n = orderCall.n + 1 /\ orderCall'.op = op

\* C21: a call of apply that returns an error leaves the order's price,
\* trigger price, quantity, leaves quantity, status and event list as they
\* were before the call.
C21_ApplyAtomicOnError ==
    [][(OrderCalled("apply") /\ orderCall'.result = "err")
        => order' = order]_vars

\* C22: a call of update returns with quantity = event.quantity,
\* leaves_qty = quantity - filled_qty >= 0, and price and trigger price
\* replaced exactly when the event carries a value for them.
C22_UpdatePostcondition ==
    [][OrderCalled("update")
        => LET e == orderCall'.event IN
           /\ orderCall'.result = "ok"
           /\ order'.quantity = e.quantity
           /\ order'.leaves_qty >= 0
           /\ order'.filled_qty + order'.leaves_qty = order'.quantity
           /\ order'.filled_qty = order.filled_qty
           /\ order'.price = IF e.price = None THEN order.price ELSE e.price
           /\ order'.trigger_price =
                IF e.trigger_price = None THEN order.trigger_price
                ELSE e.trigger_price]_vars

----------------------------------------------------------------------------
(* Accounts *)

\* the account built from the first event with events 2..n applied in order
RECURSIVE ApplyAll(_, _)
ApplyAll(acc, evs) ==
    IF evs = <<>> THEN acc
    ELSE ApplyAll(AccountApply(acc, Head(evs)), Tail(evs))

\* C23: from_events returns an error exactly when the list is empty; for a
\* non-empty list it does not panic and returns the account whose variant
\* is the first event's account type, with the remaining events applied
\* once each in list order.
C23_FromEvents ==
    /\ acctPc # "panic"
    /\ acctPc = "err" => acctEvents = <<>>
    /\ acctPc = "ok"
         => /\ acctEvents # <<>>
            /\ account.variant = acctEvents[1].account_type
            /\ account.events = acctEvents
            /\ account = ApplyAll(NewAccount(acctEvents[1].account_type,
                                              acctEvents[1]),
                                  Tail(acctEvents))

====
